---- MODULE Spec2Model ----
(***************************************************************************)
(* Model of the API executor of Pratap590/chat-app:                        *)
(*   execute_custom_api   (src/enhanced_api_executor_fixes.py:21-128)      *)
(*   execute_api_request  (src/enhanced_api_executor_fixes.py:252-294)     *)
(*   node_api_exec        (src/enhanced_api_executor_fixes.py:133-250)     *)
(* and of the dynamic API registry and the conversation flows it works on. *)
(* An invocation is one step: the request description and the behaviour of *)
(* the network for that invocation are the step's inputs; the outgoing     *)
(* calls made and the outcome handed to the caller are the state after it. *)
(***************************************************************************)
EXTENDS Integers, Sequences, FiniteSets, TLC

VARIABLES
    pc,        \* "idle": no invocation under way; "done": one has finished
    fn,        \* which executor ran ("none" while idle)
    req,       \* the request description it was given
    net,       \* what the network did with the outgoing call
    calls,     \* the outgoing HTTP calls of the invocation, in order
    outcome,   \* what the executor handed to its caller
    turn,      \* the utterance node_api_exec handled and what it did with it
    flows,     \* session id -> the session's conversation flow
    registry,  \* tenant id -> the tenant's API definitions, as listed
    registered,\* history: tenant id -> name -> the definition last registered
    reply,     \* what the last registry operation answered
    globals,   \* the process-wide CURRENT_TENANT_ID and CURRENT_SESSION
    handlers,  \* the turns the surrounding layer has under way
    procs,     \* the callers of the registry that run concurrently
    locks      \* tenant id -> the caller holding the tenant's registry lock

vars == <<pc, fn, req, net, calls, outcome, turn, flows, registry, registered,
          reply, globals, handlers, procs, locks>>

\* what the executors and the one-at-a-time registry operations leave alone
concurrent == <<globals, handlers, procs, locks>>

----------------------------------------------------------------------------
(* Bounds *)

\* number of distinct query-parameter names a request may use
MaxKeys == 1

\* number of distinct API names a tenant may register
MaxApis == 2

KeyNames == <<"id", "q", "page">>

ParamKeys == {KeyNames[i] : i \in 1..MaxKeys}

----------------------------------------------------------------------------
(* Python values: a tag t, a text s (strings, numbers written out) and a   *)
(* mapping d (dict entries, list items by index).                          *)

EmptyDict == [k \in {} |-> ""]

PyNone == [t |-> "none", s |-> "", d |-> EmptyDict]

PyStr(text) == [t |-> "str", s |-> text, d |-> EmptyDict]

PyInt(text) == [t |-> "int", s |-> text, d |-> EmptyDict]

PyDict(f) == [t |-> "dict", s |-> "", d |-> f]

PyList(f) == [t |-> "list", s |-> "", d |-> f]

\* Python truthiness, as used by `if req.body`, `not json_body`, `params or None`
Truthy(v) ==
    CASE v.t = "none" -> FALSE
      [] v.t = "str"  -> v.s # ""
      [] v.t = "int"  -> v.s # "0"
      [] v.t = "dict" -> DOMAIN v.d # {}
      [] v.t = "list" -> DOMAIN v.d # {}
      [] OTHER        -> TRUE

\* str(x).upper() on the method names that occur
Upper(s) ==
    CASE s = "get"    -> "GET"
      [] s = "post"   -> "POST"
      [] s = "put"    -> "PUT"
      [] s = "patch"  -> "PATCH"
      [] s = "delete" -> "DELETE"
      [] OTHER        -> s

\* str.lower() on the URL schemes that occur
Lower(s) ==
    CASE s = "HTTP"  -> "http"
      [] s = "HTTPS" -> "https"
      [] s = "Fetch" -> "fetch"
      [] s = "New"   -> "new"
      [] s = "York"  -> "york"
      [] OTHER       -> s

\* json.loads on the texts that occur: ok = FALSE is the raised ValueError
JsonLoads(text) ==
    CASE text = "{}"               -> [ok |-> TRUE, v |-> PyDict(EmptyDict)]
      [] text = "{\"id\": \"1\"}"  -> [ok |-> TRUE, v |-> PyDict([k \in {"id"} |-> "1"])]
      [] text = "[]"               -> [ok |-> TRUE, v |-> PyList(EmptyDict)]
      [] text = "null"             -> [ok |-> TRUE, v |-> PyNone]
      [] text = "0"                -> [ok |-> TRUE, v |-> PyInt("0")]
      [] OTHER                     -> [ok |-> FALSE, v |-> PyNone]

\* str(body) for the body values that occur (strings are returned as they are)
Str(v) ==
    CASE v.t = "str"  -> v.s
      [] v.t = "int"  -> v.s
      [] v.t = "none" -> "None"
      [] v.t = "dict" -> IF DOMAIN v.d = {} THEN "{}" ELSE "{'id': '1'}"
      [] v.t = "list" -> IF DOMAIN v.d = {} THEN "[]" ELSE "['x']"
      [] OTHER        -> ""

----------------------------------------------------------------------------
(* URLs: the scheme as written and the rest; netloc "[bad" stands for an   *)
(* unbalanced bracket, on which urlparse raises ValueError.                *)

Urls ==
    { [scheme |-> "http",  netloc |-> "host"],
      [scheme |-> "HTTPS", netloc |-> "host"],
      [scheme |-> "ftp",   netloc |-> "host"],
      [scheme |-> "",      netloc |-> "host"],
      [scheme |-> "ftp",   netloc |-> "[bad"],
      [scheme |-> "http",  netloc |-> "[bad"] }

\* urllib.parse.urlparse: raises on a malformed netloc, lower-cases the scheme
urlparse(url) ==
    IF url.netloc = "[bad"
    THEN [raises |-> TRUE,  scheme |-> ""]
    ELSE [raises |-> FALSE, scheme |-> Lower(url.scheme)]

\* requests refuses a URL it cannot send (MissingSchema, InvalidSchema,
\* InvalidURL are raised before anything reaches the network)
requests_accepts(url) ==
    /\ ~urlparse(url).raises
    /\ urlparse(url).scheme \in {"http", "https"}

----------------------------------------------------------------------------
(* Inputs *)

Methods == {"", "GET", "get", "POST", "PUT", "PATCH", "DELETE", "OPTIONS"}

JsonText == "{\"id\": \"1\"}"

Bodies ==
    { PyNone,
      PyDict(EmptyDict),
      PyDict([k \in {"id"} |-> "1"]),
      PyList(EmptyDict),
      PyStr("hello"),
      PyStr(""),
      PyStr(JsonText),
      PyStr("null") }

HeaderSets ==
    { EmptyDict,
      [k \in {"Content-Type"} |-> "text/plain"],
      [k \in {"content-type"} |-> "text/plain"],
      [k \in {"User-Agent"} |-> "curl/8"] }

QueryParams ==
    {PyNone} \cup {PyDict(f) : f \in UNION {[S -> {"1"}] : S \in SUBSET ParamKeys}}

\* (param_key, param_value); "" stands for an absent (None) field
ParamPairs == {<<"", "">>, <<KeyNames[1], "">>, <<KeyNames[1], "9">>}

CustomRequests ==
    { [base_url |-> u, method |-> m, query_params |-> q,
       param_key |-> p[1], param_value |-> p[2], body |-> b, headers |-> h] :
        u \in Urls, m \in Methods, q \in QueryParams, p \in ParamPairs,
        b \in Bodies, h \in HeaderSets }

\* the dictionary node_api_exec style callers hand to execute_api_request
ApiRequests ==
    [base_url : Urls, method : Methods, query_params : QueryParams \ {PyNone},
     param_key : {""}, param_value : {""},
     body : Bodies, headers : HeaderSets]

StatusCodes == {101, 200, 399, 400, 599, 600}

ResponseTexts == {JsonText, "Not Found"}

NoNet == [kind |-> "none", status |-> 0, text |-> ""]

NetOutcomes ==
    [kind : {"response"}, status : StatusCodes, text : ResponseTexts]
    \cup [kind : {"timeout", "connection_error", "request_exception"},
          status : {0}, text : {""}]

----------------------------------------------------------------------------
(* What an executor hands to its caller.  kind "result" is a returned      *)
(* dictionary whose keys are listed in keys; kind "http_exception" is a    *)
(* raised HTTPException (status = its status_code); kind "unhandled" is    *)
(* any other exception leaving the function.                               *)

NoOutcome ==
    [kind |-> "none", keys |-> {}, success |-> FALSE, status |-> 0,
     data |-> PyNone, text |-> "", content_type |-> "", error |-> "",
     detail |-> ""]

HTTPException(code, msg) ==
    [NoOutcome EXCEPT !.kind = "http_exception", !.status = code, !.detail = msg]

Unhandled(name) ==
    [NoOutcome EXCEPT !.kind = "unhandled", !.detail = name]

\* the timeout passed to every requests call, in seconds
RequestTimeout == 30

\* requests.Response.ok: raise_for_status() raises for 400 <= status < 600
ok(status) == ~(400 <= status /\ status < 600)

\* an outgoing call: the arguments given to requests.get / requests.request
Call(method, url, json, data, params, headers) ==
    [method |-> method, url |-> url, json |-> json, data |-> data,
     params |-> params, headers |-> headers, timeout |-> RequestTimeout]

\* what requests puts on the wire for a call: the json argument is encoded
\* as the body unless data is given; data is the body when it is not empty;
\* params become the query string
SendsJson(c) == c.json.t # "none" /\ ~Truthy(c.data)

SendsText(c) == Truthy(c.data)

QueryString(c) == IF c.params.t = "dict" THEN c.params.d ELSE EmptyDict

\* header names are case-insensitive on the wire: the lower-cased name
HeaderName(k) ==
    CASE k = "Content-Type" -> "content-type"
      [] k = "User-Agent"   -> "user-agent"
      [] OTHER              -> k

\* the headers requests sends for a call whose caller had given `given`:
\* the headers= argument is read into a case-insensitive mapping in
\* insertion order, so of two spellings of a name the one added later (by
\* the executor) stays; a JSON body brings Content-Type: application/json
\* when no content-type was set
WireHeaders(c, given) ==
    LET added == DOMAIN c.headers \ DOMAIN given
        names == {HeaderName(k) : k \in DOMAIN c.headers}
                   \cup (IF SendsJson(c) THEN {"content-type"} ELSE {})
    IN  [n \in names |->
           IF \E k \in added : HeaderName(k) = n
           THEN c.headers[CHOOSE k \in added : HeaderName(k) = n]
           ELSE IF \E k \in DOMAIN given : HeaderName(k) = n
           THEN given[CHOOSE k \in DOMAIN given : HeaderName(k) = n]
           ELSE "application/json"]

BodyMethods == {"POST", "PUT", "PATCH", "DELETE"}

----------------------------------------------------------------------------
(* execute_custom_api *)

\* the scheme check left out: every URL that parses is passed on
custom_url_check_skipped(r) ==
    IF urlparse(r.base_url).raises THEN "raise" ELSE "pass"

\* lines 29-30: the scheme check; "raise" is urlparse's own ValueError
custom_url_check(r) ==
    IF urlparse(r.base_url).raises THEN "raise"
    ELSE IF urlparse(r.base_url).scheme \notin {"http", "https"} THEN "reject"
    ELSE "pass"

\* lines 34-36: query_params merged with param_key/param_value
custom_params(r) ==
    LET base == IF Truthy(r.query_params) THEN r.query_params.d ELSE EmptyDict
    IN  IF r.param_key # "" /\ r.param_value # "" /\ r.param_key \notin DOMAIN base
        THEN base @@ (r.param_key :> r.param_value)
        ELSE base

\* line 39
custom_method(r) == Upper(IF r.method = "" THEN "GET" ELSE r.method)

\* lines 40-49: default Content-Type and User-Agent
custom_headers(r) ==
    LET h0 == r.headers
        h1 == IF /\ custom_method(r) \in {"POST", "PUT", "PATCH"}
                 /\ Truthy(r.body)
                 /\ "Content-Type" \notin DOMAIN h0
              THEN h0 @@ ("Content-Type" :> "application/json")
              ELSE h0
    IN  IF "User-Agent" \notin DOMAIN h1
        THEN h1 @@ ("User-Agent" :> "Multi-Agent-Chatbot/1.0")
        ELSE h1

\* lines 60-76: json_body and data_param; bound = FALSE when the branch
\* taken never assigns them
custom_payload(r) ==
    IF custom_method(r) \notin BodyMethods
    THEN [bound |-> FALSE, json_body |-> PyNone, data_param |-> PyNone]
    ELSE IF r.body.t # "none"
    THEN IF r.body.t \in {"dict", "list"}
         THEN [bound |-> TRUE, json_body |-> r.body, data_param |-> PyNone]
         ELSE LET parsed == JsonLoads(Str(r.body))
              IN  IF parsed.ok
                  THEN [bound |-> TRUE, json_body |-> parsed.v, data_param |-> PyNone]
                  ELSE [bound |-> TRUE, json_body |-> PyNone,
                        data_param |-> PyStr(Str(r.body))]
    ELSE [bound |-> TRUE,
          json_body |-> IF custom_params(r) # EmptyDict
                        THEN PyDict(custom_params(r)) ELSE PyNone,
          data_param |-> PyNone]

\* `params or None`
ParamsOrNone(params) == IF params # EmptyDict THEN PyDict(params) ELSE PyNone

\* the GET branch passing the body on as json=
custom_call_get_with_body(r) ==
    LET method == custom_method(r)
        pl     == custom_payload(r)
    IN  IF method \in BodyMethods
        THEN Call(method, r.base_url, pl.json_body, pl.data_param,
                  IF method = "DELETE" /\ ~Truthy(pl.json_body)
                  THEN PyDict(custom_params(r)) ELSE PyNone,
                  custom_headers(r))
        ELSE Call("GET", r.base_url, r.body, PyNone,
                  ParamsOrNone(custom_params(r)), custom_headers(r))

\* lines 52-91: the requests call made for the request
custom_call(r) ==
    LET method == custom_method(r)
        pl     == custom_payload(r)
    IN  IF method = "GET"
        THEN Call("GET", r.base_url, PyNone, PyNone,
                  ParamsOrNone(custom_params(r)), custom_headers(r))
        ELSE IF method \in BodyMethods
        THEN Call(method, r.base_url, pl.json_body, pl.data_param,
                  IF method = "DELETE" /\ ~Truthy(pl.json_body)
                  THEN PyDict(custom_params(r)) ELSE PyNone,
                  custom_headers(r))
        ELSE Call("GET", r.base_url, PyNone, PyNone,
                  ParamsOrNone(custom_params(r)), custom_headers(r))

\* the call issued again after a timeout
custom_calls_retry(r, n) ==
    IF n.kind = "timeout" THEN <<custom_call(r), custom_call(r)>> ELSE <<custom_call(r)>>

\* lines 51-91: the calls one invocation makes once the URL has passed
custom_calls(r, n) == <<custom_call(r)>>

\* the text kept next to the parsed JSON
custom_response_data_both(r, n) ==
    LET parsed == JsonLoads(n.text)
        base   == [NoOutcome EXCEPT !.kind = "result",
                                    !.success = ok(n.status),
                                    !.status = n.status,
                                    !.text = n.text]
        common == {"success", "status", "url", "method", "headers", "content_type", "text"}
    IN  IF parsed.ok
        THEN [base EXCEPT !.keys = common \cup {"data"},
                          !.data = parsed.v, !.content_type = "json"]
        ELSE [base EXCEPT !.keys = common, !.content_type = "text"]

\* lines 94-110: the normalized response
custom_response_data(r, n) ==
    LET parsed == JsonLoads(n.text)
        base   == [NoOutcome EXCEPT !.kind = "result",
                                    !.success = ok(n.status),
                                    !.status = n.status]
        common == {"success", "status", "url", "method", "headers", "content_type"}
    IN  IF parsed.ok
        THEN [base EXCEPT !.keys = common \cup {"data"},
                          !.data = parsed.v, !.content_type = "json"]
        ELSE [base EXCEPT !.keys = common \cup {"text"},
                          !.text = n.text, !.content_type = "text"]

\* lines 112-119: debug information; reading json_body raises
\* UnboundLocalError when no branch assigned it, which line 127 turns
\* into HTTPException 500
custom_debug(r, res) ==
    IF ~custom_payload(r).bound
    THEN HTTPException(500, "Internal error")
    ELSE [res EXCEPT !.keys =
            res.keys \cup {"request_headers"}
              \cup (IF Truthy(custom_payload(r).json_body) THEN {"request_body"} ELSE {})
              \cup (IF custom_params(r) # EmptyDict THEN {"request_params"} ELSE {})]

\* lines 121-126: the handlers for exceptions raised by requests
custom_except(n) ==
    CASE n.kind = "timeout"           -> HTTPException(408, "API request timed out")
      [] n.kind = "connection_error"  -> HTTPException(502, "Failed to connect to API endpoint")
      [] OTHER                        -> HTTPException(502, "API request failed")

\* lines 21-128: the outcome of one invocation
custom_outcome(r, n) ==
    CASE custom_url_check(r) = "raise"  -> Unhandled("ValueError")
      [] custom_url_check(r) = "reject" ->
            HTTPException(400, "Only http/https URLs are allowed")
      [] ~requests_accepts(r.base_url)  -> custom_except(n)
      [] n.kind = "response"            -> custom_debug(r, custom_response_data(r, n))
      [] OTHER                          -> custom_except(n)

----------------------------------------------------------------------------
(* execute_api_request *)

\* line 255: request_data.get("method", "GET").upper(); "" is a missing key
api_method(r) == Upper(IF r.method = "" THEN "GET" ELSE r.method)

\* lines 257, 261-263: default User-Agent
api_headers(r) ==
    IF "User-Agent" \notin DOMAIN r.headers
    THEN r.headers @@ ("User-Agent" :> "Multi-Agent-Chatbot/1.0")
    ELSE r.headers

\* lines 265-272: the requests call made for the request
api_call(r) ==
    IF api_method(r) \in BodyMethods
    THEN Call(api_method(r), r.base_url, r.body, PyNone, r.query_params, api_headers(r))
    ELSE Call("GET", r.base_url, PyNone, PyNone, r.query_params, api_headers(r))

\* lines 265-272: the calls one invocation makes when requests takes the URL
api_calls(r, n) == <<api_call(r)>>

\* success made to depend on the payload parsing as JSON
api_result_parse_dependent(r, n) ==
    LET parsed == JsonLoads(n.text)
        base   == [NoOutcome EXCEPT !.kind = "result",
                                    !.success = ok(n.status) /\ parsed.ok,
                                    !.status = n.status]
        common == {"success", "status", "url", "method"}
    IN  IF parsed.ok
        THEN [base EXCEPT !.keys = common \cup {"data"}, !.data = parsed.v]
        ELSE [base EXCEPT !.keys = common \cup {"text"}, !.text = n.text]

\* lines 275-287: the parsed response
api_result(r, n) ==
    LET parsed == JsonLoads(n.text)
        base   == [NoOutcome EXCEPT !.kind = "result",
                                    !.success = ok(n.status),
                                    !.status = n.status]
        common == {"success", "status", "url", "method"}
    IN  IF parsed.ok
        THEN [base EXCEPT !.keys = common \cup {"data"}, !.data = parsed.v]
        ELSE [base EXCEPT !.keys = common \cup {"text"}, !.text = n.text]

\* the exception let through to the caller
api_except_reraised(n) == Unhandled("RequestException")

\* lines 289-294: any exception becomes a failed result; error is str(e)
api_except(n) ==
    [NoOutcome EXCEPT !.kind = "result", !.keys = {"success", "error", "status"},
                      !.success = FALSE, !.status = 0,
                      !.error = CASE n.kind = "timeout"          -> "Timeout"
                                  [] n.kind = "connection_error" -> "ConnectionError"
                                  [] n.kind = "request_exception" -> "RequestException"
                                  [] OTHER                        -> "InvalidURL"]

\* lines 252-294: the outcome of one invocation
api_outcome(r, n) ==
    CASE ~requests_accepts(r.base_url) -> api_except(n)
      [] n.kind = "response"           -> api_result(r, n)
      [] OTHER                         -> api_except(n)

----------------------------------------------------------------------------
(* Dynamic API registry: register, list, remove, resolve, per tenant.      *)
(* A tenant's definitions are kept in the order list returns them.         *)

Tenants == {"default", "t1"}

ApiNameList == <<"weather", "posts", "time">>

ApiNames == {ApiNameList[i] : i \in 1..MaxApis}

NoDef ==
    [name |-> "", base_url |-> [scheme |-> "", netloc |-> ""], method |-> "",
     description |-> "", parameters |-> EmptyDict, auth_type |-> "",
     auth_value |-> ""]

\* two definitions per name that differ in every other field
ApiDefinitions ==
    { [name |-> n, base_url |-> [scheme |-> "https", netloc |-> "host"],
       method |-> "GET", description |-> "first",
       parameters |-> [k \in {"q", "appid"} |-> "required"],
       auth_type |-> "api_key", auth_value |-> "dummy_key"] : n \in ApiNames }
    \cup
    { [name |-> n, base_url |-> [scheme |-> "http", netloc |-> "host"],
       method |-> "PUT", description |-> "second",
       parameters |-> EmptyDict,
       auth_type |-> "none", auth_value |-> ""] : n \in ApiNames }

\* had is history: whether the name was registered when the operation began
NoReply ==
    [op |-> "none", tenant |-> "", name |-> "", given |-> NoDef,
     had |-> FALSE, result |-> "", found |-> NoDef, listing |-> <<>>]

\* the positions of `name` among a tenant's definitions
registry_index(defs, name) == {i \in 1..Len(defs) : defs[i].name = name}

\* a registration that adds without looking for the name
registry_put_appending(defs, d) == Append(defs, d)

\* register: insert, or replace the definition of the same name
registry_put(defs, d) ==
    IF registry_index(defs, d.name) = {}
    THEN Append(defs, d)
    ELSE [i \in 1..Len(defs) |-> IF defs[i].name = d.name THEN d ELSE defs[i]]

\* a removal that leaves the definitions as they are
registry_delete_nothing(defs, name) == defs

\* remove: the definitions without the one of that name
registry_delete(defs, name) ==
    SelectSeq(defs, LAMBDA d : d.name # name)

\* a lookup that hands back the definition without its credential
registry_find_no_auth(defs, name) ==
    IF registry_index(defs, name) = {}
    THEN NoDef
    ELSE [defs[CHOOSE i \in registry_index(defs, name) : TRUE]
            EXCEPT !.auth_value = ""]

\* resolve: the definition of that name, NoDef for NotFound
registry_find(defs, name) ==
    IF registry_index(defs, name) = {}
    THEN NoDef
    ELSE defs[CHOOSE i \in registry_index(defs, name) : TRUE]

register ==
    \E t \in Tenants, d \in ApiDefinitions :
        /\ registry' = [registry EXCEPT ![t] = registry_put(@, d)]
        /\ registered' = [registered EXCEPT ![t][d.name] = d]
        /\ reply' = [NoReply EXCEPT !.op = "register", !.tenant = t,
                                    !.name = d.name, !.given = d, !.result = "ok",
                                    !.had = registered[t][d.name] # NoDef]
        /\ UNCHANGED <<pc, fn, req, net, calls, outcome, turn, flows>>
        /\ UNCHANGED concurrent

list ==
    \E t \in Tenants :
        /\ reply' = [NoReply EXCEPT !.op = "list", !.tenant = t, !.result = "ok",
                                    !.listing = registry[t]]
        /\ UNCHANGED <<pc, fn, req, net, calls, outcome, turn, flows,
                       registry, registered>>
        /\ UNCHANGED concurrent

resolve ==
    \E t \in Tenants, n \in ApiNames :
        /\ reply' = [NoReply EXCEPT
                        !.op = "resolve", !.tenant = t, !.name = n,
                        !.had = registered[t][n] # NoDef,
                        !.found = registry_find(registry[t], n),
                        !.result = IF registry_find(registry[t], n) = NoDef
                                   THEN "NotFound" ELSE "ok"]
        /\ UNCHANGED <<pc, fn, req, net, calls, outcome, turn, flows,
                       registry, registered>>
        /\ UNCHANGED concurrent

remove ==
    \E t \in Tenants, n \in ApiNames :
        /\ registry' = [registry EXCEPT ![t] = registry_delete(@, n)]
        /\ registered' = [registered EXCEPT ![t][n] = NoDef]
        /\ reply' = [NoReply EXCEPT
                        !.op = "remove", !.tenant = t, !.name = n,
                        !.had = registered[t][n] # NoDef,
                        !.result = IF registry_index(registry[t], n) = {}
                                   THEN "NotFound" ELSE "ok"]
        /\ UNCHANGED <<pc, fn, req, net, calls, outcome, turn, flows>>
        /\ UNCHANGED concurrent

----------------------------------------------------------------------------
(* node_api_exec: one utterance of one session.                            *)
(* An utterance is its text and the blank-separated pieces of the text;    *)
(* a brace-delimited piece is kept whole (its inner blank separates no     *)
(* keyword and no URL).                                                    *)

UrlA == "https://a.test/items/1"

UrlB == "http://b.test/posts/2"

Utterance(text, tokens) == [text |-> text, tokens |-> tokens]

NoUtterance == Utterance("", <<>>)

Utterances ==
    { Utterance("hello", <<"hello">>),
      Utterance("New York", <<"New", "York">>),
      Utterance("update the title", <<"update", "the", "title">>),
      Utterance("https://a.test/items/1", <<UrlA>>),
      Utterance("HTTPS://A.TEST/ITEMS/1 update", <<"HTTPS://A.TEST/ITEMS/1", "update">>),
      Utterance("update https://a.test/items/1", <<"update", UrlA>>),
      Utterance("modify https://a.test/items/1 {\"id\": \"1\"}",
                <<"modify", UrlA, JsonText>>),
      Utterance("create https://a.test/items/1 {}", <<"create", UrlA, "{}">>),
      Utterance("partial https://a.test/items/1 {oops}",
                <<"partial", UrlA, "{oops}">>),
      Utterance("update https://a.test/items/1 {oops} {\"id\": \"1\"}",
                <<"update", UrlA, "{oops}", JsonText>>),
      Utterance("remove https://a.test/items/1 {\"id\": \"1\"}",
                <<"remove", UrlA, JsonText>>),
      Utterance("Fetch https://a.test/items/1", <<"Fetch", UrlA>>),
      Utterance("Fetch and remove https://a.test/items/1",
                <<"Fetch", "and", "remove", UrlA>>),
      Utterance("Fetch http://b.test/posts/2 https://a.test/items/1",
                <<"Fetch", UrlB, UrlA>>) }

\* lines 157-163: the keyword table, in the order the dictionary is walked
api_keywords ==
    << [method |-> "put",    keywords |-> {"put", "update", "modify", "change", "edit"}],
       [method |-> "post",   keywords |-> {"post", "create", "add", "submit", "send"}],
       [method |-> "patch",  keywords |-> {"patch", "partial", "modify"}],
       [method |-> "delete", keywords |-> {"delete", "remove", "destroy"}],
       [method |-> "get",    keywords |-> {"get", "fetch", "retrieve", "read"}] >>

\* `keyword in text` for a lower-cased piece: the keywords that occur in it
\* as substrings ("post" occurs in the path of UrlB)
KeywordsIn(piece) ==
    CASE piece = "update"  -> {"update"}
      [] piece = "modify"  -> {"modify"}
      [] piece = "create"  -> {"create"}
      [] piece = "partial" -> {"partial"}
      [] piece = "remove"  -> {"remove"}
      [] piece = "fetch"   -> {"fetch"}
      [] piece = UrlB      -> {"post"}
      [] OTHER             -> {}

\* line 166: the keywords occurring in user_msg.lower()
keywords_found(u) ==
    UNION {KeywordsIn(Lower(u.tokens[i])) : i \in 1..Len(u.tokens)}

\* the table walked with patch ahead of put
detect_method_patch_first(u) ==
    LET order == <<3, 1, 2, 4, 5>>
        hit   == {j \in 1..5 :
                    api_keywords[order[j]].keywords \cap keywords_found(u) # {}}
    IN  IF hit = {} THEN ""
        ELSE Upper(api_keywords[order[CHOOSE j \in hit : \A k \in hit : j <= k]].method)

\* lines 164-169: the first category with a keyword in the utterance; "" is
\* None
detect_method(u) ==
    LET hit == {j \in 1..Len(api_keywords) :
                  api_keywords[j].keywords \cap keywords_found(u) # {}}
    IN  IF hit = {} THEN ""
        ELSE Upper(api_keywords[CHOOSE j \in hit : \A k \in hit : j <= k].method)

\* the URL pattern matches a piece: https?:// is matched as written, in
\* lower case only
IsUrl(piece) == piece \in {UrlA, UrlB}

\* the URL a matched text stands for
ParseUrl(text) ==
    CASE text = UrlA -> [scheme |-> "https", netloc |-> "a.test"]
      [] text = UrlB -> [scheme |-> "http",  netloc |-> "b.test"]
      [] OTHER       -> [scheme |-> "", netloc |-> ""]

\* the matches taken from the end of the utterance
find_urls_reversed(u) ==
    LET f == SelectSeq(u.tokens, IsUrl)
    IN  [i \in 1..Len(f) |-> f[Len(f) + 1 - i]]

\* lines 173-174: re.findall(url_pattern, user_msg)
find_urls(u) == SelectSeq(u.tokens, IsUrl)

\* the brace pattern \{[^{}]*\} matches a piece
IsJsonCandidate(piece) == piece \in {JsonText, "{}", "{oops}"}

\* lines 193-194: re.findall(json_pattern, user_msg)
find_json(u) == SelectSeq(u.tokens, IsJsonCandidate)

\* line 176: `if urls and detected_method`
direct_detected(u) == find_urls(u) # <<>> /\ detect_method(u) # ""

\* lines 203-209: the placeholder body of a method; timestamp is time.time()
default_body(method) ==
    CASE method = "PUT"   -> PyDict([k \in {"updated", "timestamp"} |->
                                       IF k = "updated" THEN "True" ELSE "now"])
      [] method = "POST"  -> PyDict([k \in {"created", "timestamp"} |->
                                       IF k = "created" THEN "True" ELSE "now"])
      [] method = "PATCH" -> PyDict([k \in {"patched", "timestamp"} |->
                                       IF k = "patched" THEN "True" ELSE "now"])
      [] OTHER            -> PyNone

\* lines 195-200: json.loads of the first candidate; an exception is passed
\* over and leaves the body None
parsed_body(u) ==
    IF find_json(u) # <<>> /\ JsonLoads(find_json(u)[1]).ok
    THEN JsonLoads(find_json(u)[1]).v
    ELSE PyNone

\* lines 191-209: the body of the request
request_body(u) ==
    IF detect_method(u) \notin {"PUT", "POST", "PATCH"} THEN PyNone
    ELSE IF ~Truthy(parsed_body(u)) THEN default_body(detect_method(u))
    ELSE parsed_body(u)

NoRequest ==
    [base_url |-> [scheme |-> "", netloc |-> ""], method |-> "",
     query_params |-> PyNone, param_key |-> "", param_value |-> "",
     body |-> PyNone, headers |-> EmptyDict]

\* lines 178, 183-209: request_data for the first URL and the detected method
request_data(u) ==
    [base_url |-> ParseUrl(find_urls(u)[1]),
     method |-> detect_method(u),
     query_params |-> PyDict(EmptyDict),
     param_key |-> "", param_value |-> "",
     body |-> request_body(u),
     headers |-> [k \in {"Content-Type"} |-> "application/json"]]

Message(kind, status, error) ==
    [role |-> "assistant", kind |-> kind, status |-> status, error |-> error]

\* a failed call answered with nothing
direct_reply_silent_on_failure(response) ==
    IF response.success
    THEN <<Message("success", response.status, "")>>
    ELSE <<>>

\* lines 214-231: the messages returned for the response of the call
direct_reply(response) ==
    IF response.success
    THEN <<Message("success", response.status, "")>>
    ELSE <<Message("failed", response.status,
                   IF "error" \in response.keys THEN response.error
                   ELSE "Unknown error")>>

\* lines 296-365: the language model answers, or its failure is caught
handle_regular_tools_enhanced(llm_ok) ==
    <<Message(IF llm_ok THEN "llm" ELSE "fallback", 0, "")>>

\* line 135
node_tenant_id(current) == IF current = "" THEN "default" ELSE current

\* line 136
node_session_id(current) == IF current = "" THEN "default" ELSE current

TenantInputs == {"", "t1"}

SessionInputs == {"", "s1"}

Sessions == {node_session_id(s) : s \in SessionInputs}

----------------------------------------------------------------------------
(* Conversation flows and the router's answer.                             *)

\* api is the definition resolved when the flow was opened; unanswered
\* counts the turns in a row that brought the flow no answer
NoFlow ==
    [active |-> FALSE, api |-> NoDef, pending |-> <<>>, collected |-> EmptyDict,
     unanswered |-> 0, is_complete |-> FALSE]

\* the number of unanswered turns in a row after which a flow is abandoned
AbandonAfter == 5

\* line 246: the confidence an intent must exceed, in hundredths
ConfidenceThreshold == 70

NoIntent == [present |-> FALSE, confidence |-> 0, api |-> "", missing |-> <<>>]

\* what analyze_api_intent may answer: nothing, or an intent for a known
\* API with a confidence (in hundredths) and the parameters still missing
Intents ==
    {NoIntent}
    \cup [present : {TRUE}, confidence : {50, 70, 71}, api : {"weather"},
          missing : {<<>>, <<"q">>, <<"q", "appid">>}]

\* an intent acted on at the threshold itself
intent_passes_at_threshold(i) == i.present /\ i.confidence >= ConfidenceThreshold

\* line 246: `api_intent and api_intent.confidence > 0.7`
intent_passes(i) == i.present /\ i.confidence > ConfidenceThreshold

\* line 240: `active_flow and not active_flow.is_complete`
flow_active(f) == f.active /\ ~f.is_complete

\* lines 176, 240, 246, 250: which handler answers the utterance
node_route(u, f, i) ==
    IF direct_detected(u) THEN "direct"
    ELSE IF flow_active(f) THEN "active_flow"
    ELSE IF intent_passes(i) THEN "new_intent"
    ELSE "fallback"

\* the flow a new intent with missing parameters opens
flow_start(i, def) ==
    [active |-> TRUE, api |-> def, pending |-> i.missing,
     collected |-> EmptyDict, unanswered |-> 0, is_complete |-> FALSE]

\* the utterance stored as the value of the oldest pending parameter
flow_answer(f, text) ==
    [f EXCEPT !.collected = (Head(f.pending) :> text) @@ @,
              !.pending = Tail(@),
              !.unanswered = 0]

\* what a turn handed to a collecting flow does to it: an empty utterance
\* answers nothing and the flow waits, or is abandoned at the bound; any
\* other utterance is the answer, which completes the flow when nothing is
\* pending after it
flow_event(f, text) ==
    IF text = ""
    THEN IF f.unanswered + 1 >= AbandonAfter THEN "abandoned" ELSE "waiting"
    ELSE IF Len(f.pending) = 1 THEN "complete" ELSE "collecting"

\* a completed flow left in the mapping, marked complete
flow_turn_keeping_complete(f, text) ==
    CASE flow_event(f, text) = "abandoned"  -> NoFlow
      [] flow_event(f, text) = "waiting"    -> [f EXCEPT !.unanswered = @ + 1]
      [] flow_event(f, text) = "complete"   ->
           [flow_answer(f, text) EXCEPT !.is_complete = TRUE]
      [] OTHER                              -> flow_answer(f, text)

\* the session's flow after the turn: completion and abandonment delete it
flow_turn(f, text) ==
    CASE flow_event(f, text) = "abandoned"  -> NoFlow
      [] flow_event(f, text) = "waiting"    -> [f EXCEPT !.unanswered = @ + 1]
      [] flow_event(f, text) = "complete"   -> NoFlow
      [] OTHER                              -> flow_answer(f, text)

\* the request assembled from a definition and the collected parameters
flow_request(def, collected) ==
    [base_url |-> def.base_url, method |-> def.method,
     query_params |-> PyDict(collected),
     param_key |-> "", param_value |-> "",
     body |-> default_body(def.method),
     headers |-> EmptyDict]

\* line 140: list(DYNAMIC_API_MANAGER.apis.values()), every definition the
\* manager holds
available_apis(reg) ==
    UNION {{reg[t][i] : i \in 1..Len(reg[t])} : t \in Tenants}

NoTurn ==
    [user_msg |-> NoUtterance, tenant_id |-> "", session_id |-> "",
     detected_method |-> "", route |-> "none", had_flow |-> NoFlow,
     available_apis |-> {}, api_intent |-> NoIntent, event |-> "",
     messages |-> <<>>]

----------------------------------------------------------------------------
(* Turns under way at once.  The surrounding layer sets the process-wide   *)
(* CURRENT_TENANT_ID and CURRENT_SESSION for a turn and then runs          *)
(* node_api_exec for it; turns of one session are taken one after another, *)
(* turns of different sessions are not.                                    *)

Handlers == {"h1", "h2"}

NoHandler ==
    [stage |-> "idle", tenant |-> "", session |-> "", user_msg |-> NoUtterance]

NoCurrent == [tenant |-> "", session |-> ""]

\* the utterances, network answers and router answers of the turns that
\* are followed through a conversation
FlowUtterances ==
    { Utterance("", <<>>),
      Utterance("New York", <<"New", "York">>),
      Utterance("update https://a.test/items/1", <<"update", UrlA>>) }

HandlerUtterances == FlowUtterances \ {Utterance("", <<>>)}

FewNets ==
    { [kind |-> "response", status |-> 200, text |-> JsonText],
      [kind |-> "timeout", status |-> 0, text |-> ""] }

FlowIntents ==
    {NoIntent}
    \cup [present : {TRUE}, confidence : {71}, api : {"weather"},
          missing : {<<>>, <<"q", "appid">>}]

HandlerIntents ==
    {NoIntent, [present |-> TRUE, confidence |-> 71, api |-> "weather",
                missing |-> <<"q">>]}

----------------------------------------------------------------------------
(* The registry called by several callers at once: a registration or a     *)
(* removal takes the tenant's lock, reads the tenant's definitions, writes *)
(* (a replacement in two steps: base_url, method and description first,    *)
(* the remaining fields after) and gives the lock back; list and resolve   *)
(* read while no writer holds the lock.                                    *)

Procs == {"p1", "p2"}

NoProc ==
    [stage |-> "idle", op |-> "none", tenant |-> "", name |-> "",
     given |-> NoDef, seen |-> <<>>, result |-> "", found |-> NoDef,
     listing |-> <<>>]

\* the calls a caller may make
RegistryCalls ==
    { [NoProc EXCEPT !.stage = "called", !.op = "register", !.tenant = t,
                     !.name = d.name, !.given = d] :
        t \in Tenants, d \in ApiDefinitions }
    \cup
    { [NoProc EXCEPT !.stage = "called", !.op = o, !.tenant = t, !.name = n] :
        o \in {"remove", "resolve"}, t \in Tenants, n \in ApiNames }
    \cup
    { [NoProc EXCEPT !.stage = "called", !.op = "list", !.tenant = t] :
        t \in Tenants }

\* a lock nobody waits for
lock_free_always(l, t) == TRUE

\* the tenant's lock is free
lock_free(l, t) == l[t] = ""

\* a replacement under way: the new base_url, method and description on the
\* old definition
half_written(old, d) ==
    [old EXCEPT !.base_url = d.base_url, !.method = d.method,
                !.description = d.description]

call ==
    \E p \in Procs, c \in RegistryCalls :
        /\ procs[p].stage = "idle"
        /\ procs' = [procs EXCEPT ![p] = c]
        /\ UNCHANGED <<pc, fn, req, net, calls, outcome, turn, flows, registry,
                       registered, reply, globals, handlers, locks>>

\* the lock taken and the tenant's definitions read
acquire ==
    \E p \in Procs :
        /\ procs[p].stage = "called"
        /\ procs[p].op \in {"register", "remove"}
        /\ lock_free(locks, procs[p].tenant)
        /\ locks' = [locks EXCEPT ![procs[p].tenant] = p]
        /\ procs' = [procs EXCEPT ![p].stage = "locked",
                                  ![p].seen = registry[procs[p].tenant]]
        /\ UNCHANGED <<pc, fn, req, net, calls, outcome, turn, flows, registry,
                       registered, reply, globals, handlers>>

\* a new name is inserted whole; a replacement writes its first half
write_begin ==
    \E p \in Procs :
        LET t == procs[p].tenant
            d == procs[p].given
            old == registry_find(procs[p].seen, d.name)
        IN  /\ procs[p].stage = "locked"
            /\ procs[p].op = "register"
            /\ registry' = [registry EXCEPT ![t] =
                              registry_put(procs[p].seen,
                                           IF old = NoDef THEN d
                                           ELSE half_written(old, d))]
            /\ procs' = [procs EXCEPT ![p].stage = "half"]
            /\ UNCHANGED <<pc, fn, req, net, calls, outcome, turn, flows,
                           registered, reply, globals, handlers, locks>>

\* the definition written in full and the lock given back
write_end ==
    \E p \in Procs :
        LET t == procs[p].tenant
        IN  /\ procs[p].stage = "half"
            /\ registry' = [registry EXCEPT ![t] =
                              registry_put(procs[p].seen, procs[p].given)]
            /\ locks' = [locks EXCEPT ![t] = IF @ = p THEN "" ELSE @]
            /\ procs' = [procs EXCEPT ![p].stage = "done", ![p].result = "ok"]
            /\ UNCHANGED <<pc, fn, req, net, calls, outcome, turn, flows,
                           registered, reply, globals, handlers>>

\* the removal written and the lock given back
delete ==
    \E p \in Procs :
        LET t == procs[p].tenant
        IN  /\ procs[p].stage = "locked"
            /\ procs[p].op = "remove"
            /\ registry' = [registry EXCEPT ![t] =
                              registry_delete(procs[p].seen, procs[p].name)]
            /\ locks' = [locks EXCEPT ![t] = IF @ = p THEN "" ELSE @]
            /\ procs' = [procs EXCEPT
                           ![p].stage = "done",
                           ![p].result =
                              IF registry_index(procs[p].seen, procs[p].name) = {}
                              THEN "NotFound" ELSE "ok"]
            /\ UNCHANGED <<pc, fn, req, net, calls, outcome, turn, flows,
                           registered, reply, globals, handlers>>

\* list or resolve, answered from the tenant's definitions of the moment
read ==
    \E p \in Procs :
        LET t == procs[p].tenant
        IN  /\ procs[p].stage = "called"
            /\ procs[p].op \in {"resolve", "list"}
            /\ lock_free(locks, t)
            /\ procs' = [procs EXCEPT
                           ![p].stage = "done",
                           ![p].seen = registry[t],
                           ![p].listing =
                              IF procs[p].op = "list" THEN registry[t] ELSE <<>>,
                           ![p].found =
                              IF procs[p].op = "resolve"
                              THEN registry_find(registry[t], procs[p].name)
                              ELSE NoDef,
                           ![p].result =
                              IF procs[p].op = "resolve"
                                 /\ registry_find(registry[t], procs[p].name) = NoDef
                              THEN "NotFound" ELSE "ok"]
            /\ UNCHANGED <<pc, fn, req, net, calls, outcome, turn, flows,
                           registry, registered, reply, globals, handlers, locks>>

----------------------------------------------------------------------------
(* The state machine *)

Init ==
    /\ pc = "idle"
    /\ fn = "none"
    /\ req = [base_url |-> [scheme |-> "", netloc |-> ""], method |-> "",
              query_params |-> PyNone, param_key |-> "", param_value |-> "",
              body |-> PyNone, headers |-> EmptyDict]
    /\ net = NoNet
    /\ calls = <<>>
    /\ outcome = NoOutcome
    /\ turn = NoTurn
    /\ flows = [s \in Sessions |-> NoFlow]
    /\ registry = [t \in Tenants |-> <<>>]
    /\ registered = [t \in Tenants |-> [n \in ApiNames |-> NoDef]]
    /\ reply = NoReply
    /\ globals = NoCurrent
    /\ handlers = [h \in Handlers |-> NoHandler]
    /\ procs = [p \in Procs |-> NoProc]
    /\ locks = [t \in Tenants |-> ""]

\* one invocation of the /api/custom-api/execute handler
execute_custom_api ==
    /\ pc = "idle"
    /\ \E r \in CustomRequests, n \in NetOutcomes :
         LET sent == custom_url_check(r) = "pass" /\ requests_accepts(r.base_url)
             seen == IF sent THEN n ELSE NoNet
         IN  /\ pc' = "done"
             /\ fn' = "execute_custom_api"
             /\ req' = r
             /\ net' = seen
             /\ calls' = IF sent THEN custom_calls(r, seen) ELSE <<>>
             /\ outcome' = custom_outcome(r, seen)
             /\ UNCHANGED <<turn, flows, registry, registered, reply>>
             /\ UNCHANGED concurrent

\* one invocation of execute_api_request
execute_api_request ==
    /\ pc = "idle"
    /\ \E r \in ApiRequests, n \in NetOutcomes :
         LET sent == requests_accepts(r.base_url)
             seen == IF sent THEN n ELSE NoNet
         IN  /\ pc' = "done"
             /\ fn' = "execute_api_request"
             /\ req' = r
             /\ net' = seen
             /\ calls' = IF sent THEN api_calls(r, seen) ELSE <<>>
             /\ outcome' = api_outcome(r, seen)
             /\ UNCHANGED <<turn, flows, registry, registered, reply>>
             /\ UNCHANGED concurrent

\* node_api_exec for the values t and s the process-wide CURRENT_TENANT_ID
\* and CURRENT_SESSION hold when it reads them and the utterance u; N and I
\* are the answers the network and the router may give when they are asked
node_api_exec_on(t, s, u, N, I) ==
    LET tenant_id   == node_tenant_id(t)
        session_id  == node_session_id(s)
        active_flow == flows[session_id]
        asked       == ~direct_detected(u) /\ ~flow_active(active_flow)
    IN  \E i \in (IF asked THEN I ELSE {NoIntent}) :
          LET route     == node_route(u, active_flow, i)
              def       == IF route = "active_flow" THEN active_flow.api
                           ELSE registry_find(registry[tenant_id], i.api)
              event     == CASE route = "active_flow" -> flow_event(active_flow, u.text)
                             [] route = "new_intent" /\ def = NoDef -> "unknown"
                             [] route = "new_intent" ->
                                  IF i.missing = <<>> THEN "complete" ELSE "collecting"
                             [] OTHER -> ""
              collected == IF route = "active_flow" /\ event = "complete"
                           THEN flow_answer(active_flow, u.text).collected
                           ELSE EmptyDict
              r         == CASE route = "direct" -> request_data(u)
                             [] event = "complete" -> flow_request(def, collected)
                             [] OTHER -> NoRequest
              sent      == r # NoRequest /\ requests_accepts(r.base_url)
          IN  \E n \in (IF sent THEN N ELSE {NoNet}),
                 llm_ok \in (IF route = "fallback" THEN BOOLEAN ELSE {TRUE}) :
                LET response == IF r = NoRequest THEN NoOutcome
                                ELSE api_outcome(r, n)
                IN  /\ pc' = "done"
                    /\ fn' = "node_api_exec"
                    /\ req' = r
                    /\ net' = n
                    /\ calls' = IF sent THEN api_calls(r, n) ELSE <<>>
                    /\ outcome' = response
                    /\ flows' =
                         CASE route = "active_flow" ->
                                [flows EXCEPT ![session_id] =
                                   flow_turn(active_flow, u.text)]
                           [] route = "new_intent" /\ event = "collecting" ->
                                [flows EXCEPT ![session_id] = flow_start(i, def)]
                           [] OTHER -> flows
                    /\ turn' =
                         [user_msg |-> u, tenant_id |-> tenant_id,
                          session_id |-> session_id,
                          detected_method |-> detect_method(u),
                          route |-> route,
                          had_flow |-> active_flow,
                          available_apis |-> available_apis(registry),
                          api_intent |-> i,
                          event |-> event,
                          messages |->
                            CASE route = "direct" -> direct_reply(response)
                              [] route = "fallback" ->
                                   handle_regular_tools_enhanced(llm_ok)
                              [] event = "complete" -> direct_reply(response)
                              [] event = "unknown" ->
                                   <<Message("error", 0, "NotFound")>>
                              [] event = "abandoned" ->
                                   <<Message("cancelled", 0, "FlowAbandoned")>>
                              [] OTHER -> <<Message("ask", 0, "")>>]
                    /\ UNCHANGED <<registry, registered, reply>>

\* one utterance handled by node_api_exec, nothing else under way
node_api_exec ==
    /\ pc = "idle"
    /\ \E t \in TenantInputs, s \in SessionInputs, u \in Utterances :
         node_api_exec_on(t, s, u, NetOutcomes, Intents)
    /\ UNCHANGED concurrent

\* the caller has taken the outcome; the executor keeps nothing between
\* invocations
Return ==
    /\ pc = "done"
    /\ pc' = "idle"
    /\ fn' = "none"
    /\ req' = [base_url |-> [scheme |-> "", netloc |-> ""], method |-> "",
               query_params |-> PyNone, param_key |-> "", param_value |-> "",
               body |-> PyNone, headers |-> EmptyDict]
    /\ net' = NoNet
    /\ calls' = <<>>
    /\ outcome' = NoOutcome
    /\ turn' = NoTurn
    /\ handlers' = [h \in Handlers |->
                      IF handlers[h].stage = "ran" THEN NoHandler ELSE handlers[h]]
    /\ UNCHANGED <<flows, registry, registered, reply, globals, procs, locks>>

Next == execute_custom_api \/ execute_api_request \/ Return

Spec == Init /\ [][Next]_vars

\* the definitions registered before the first utterance: one API for
\* each tenant, under different names
FirstDefinition(n) == CHOOSE d \in ApiDefinitions : d.name = n /\ d.method = "GET"

SecondDefinition(n) == CHOOSE d \in ApiDefinitions : d.name = n /\ d.method = "PUT"

RegisteredAtStart ==
    [t \in Tenants |->
       [n \in ApiNames |->
          CASE t = "default" /\ n = "weather" -> FirstDefinition(n)
            [] t = "t1" /\ n = "posts"        -> SecondDefinition(n)
            [] OTHER                          -> NoDef]]

\* the tenant's definitions at the start, in the order registered
RegistryAtStart(t) ==
    SelectSeq(<<RegisteredAtStart[t]["weather"], RegisteredAtStart[t]["posts"]>>,
              LAMBDA d : d # NoDef)

\* utterances handled one after another
NodeInit ==
    /\ pc = "idle"
    /\ fn = "none"
    /\ req = NoRequest
    /\ net = NoNet
    /\ calls = <<>>
    /\ outcome = NoOutcome
    /\ turn = NoTurn
    /\ flows = [s \in Sessions |-> NoFlow]
    /\ registered = RegisteredAtStart
    /\ registry = [t \in Tenants |-> RegistryAtStart(t)]
    /\ reply = NoReply
    /\ globals = NoCurrent
    /\ handlers = [h \in Handlers |-> NoHandler]
    /\ procs = [p \in Procs |-> NoProc]
    /\ locks = [t \in Tenants |-> ""]

NodeNext == node_api_exec \/ Return

NodeSpec == NodeInit /\ [][NodeNext]_vars

\* registry operations in any order
RegistryNext == register \/ list \/ resolve \/ remove

RegistrySpec == Init /\ [][RegistryNext]_vars

\* the turns of a conversation: few utterances, empty ones among them
node_api_exec_flow ==
    /\ pc = "idle"
    /\ \E t \in TenantInputs, s \in SessionInputs, u \in FlowUtterances :
         node_api_exec_on(t, s, u, FewNets, FlowIntents)
    /\ UNCHANGED concurrent

FlowNext == node_api_exec_flow \/ Return

FlowSpec == NodeInit /\ [][FlowNext]_vars

\* the same, with every handler that was entered running to its return:
\* node_api_exec has no loop and each of its calls is bounded by a timeout
FlowLiveSpec == NodeInit /\ [][FlowNext]_vars /\ WF_vars(Return)

\* the surrounding layer takes a turn: it sets the process-wide tenant and
\* session; a turn of a session waits for the session's turn under way
handle_turn ==
    \E h \in Handlers, t \in TenantInputs, s \in SessionInputs,
       u \in HandlerUtterances :
        /\ handlers[h].stage = "idle"
        /\ \A g \in Handlers \ {h} :
             handlers[g].stage # "idle"
             => node_session_id(handlers[g].session) # node_session_id(s)
        /\ globals' = [tenant |-> t, session |-> s]
        /\ handlers' = [handlers EXCEPT ![h] =
                          [stage |-> "set", tenant |-> t, session |-> s,
                           user_msg |-> u]]
        /\ UNCHANGED <<pc, fn, req, net, calls, outcome, turn, flows, registry,
                       registered, reply, procs, locks>>

\* node_api_exec run for a turn taken: it reads the process-wide tenant and
\* session as they are at that moment
node_api_exec_turn ==
    \E h \in Handlers :
        /\ pc = "idle"
        /\ handlers[h].stage = "set"
        /\ node_api_exec_on(globals.tenant, globals.session,
                            handlers[h].user_msg, FewNets, HandlerIntents)
        /\ handlers' = [handlers EXCEPT ![h].stage = "ran"]
        /\ UNCHANGED <<globals, procs, locks>>

HandlerNext == handle_turn \/ node_api_exec_turn \/ Return

HandlerSpec == NodeInit /\ [][HandlerNext]_vars

\* two callers of the registry, each making one call
ConcurrentNext == call \/ acquire \/ write_begin \/ write_end \/ delete \/ read

ConcurrentSpec == NodeInit /\ [][ConcurrentNext]_vars

----------------------------------------------------------------------------
(* Claims *)

Custom == pc = "done" /\ fn = "execute_custom_api"

Api == pc = "done" /\ fn = "execute_api_request"

\* the method the executor that ran works with
Method == IF fn = "execute_custom_api" THEN custom_method(req) ELSE api_method(req)

NetworkFailure == net.kind \in {"timeout", "connection_error", "request_exception"}

HasPayload == outcome.keys \cap {"data", "text"} # {}

C2_GetReturnsResult ==
    (/\ Custom
     /\ custom_method(req) = "GET"
     /\ net.kind = "response"
     /\ net.status \in 200..299)
    => /\ outcome.kind = "result"
       /\ outcome.success
       /\ outcome.status = net.status
       /\ HasPayload

\* C3: a DELETE without a body sends its non-empty query parameters in the
\* query string of the outgoing call and sends no JSON body.
C3_DeleteParamsInQuery ==
    (/\ Custom
     /\ custom_method(req) = "DELETE"
     /\ req.body = PyNone
     /\ Truthy(req.query_params)
     /\ Len(calls) = 1)
    => /\ \A k \in DOMAIN req.query_params.d :
            /\ k \in DOMAIN QueryString(calls[1])
            /\ QueryString(calls[1])[k] = req.query_params.d[k]
       /\ ~SendsJson(calls[1])

\* C4: for method GET (after upper-casing) no outgoing call of either
\* executor carries a JSON body or a raw-text body, whatever the body field.
C4_GetCarriesNoBody ==
    (pc = "done" /\ Method = "GET")
    => \A i \in 1..Len(calls) : ~SendsJson(calls[i]) /\ ~SendsText(calls[i])

C4_Witness ==
    /\ Custom
    /\ req.method = "get"
    /\ req.body = PyDict([k \in {"id"} |-> "1"])
    /\ Len(calls) = 1
    /\ calls[1].method = "GET"

\* C5: POST/PUT/PATCH with a string body that is not JSON and no
\* Content-Type from the caller sends the string as raw text, no JSON
\* payload, and no Content-Type: application/json header.
C5_RawTextWithoutJsonContentType ==
    (/\ Custom
     /\ custom_method(req) \in {"POST", "PUT", "PATCH"}
     /\ req.body.t = "str"
     /\ ~JsonLoads(req.body.s).ok
     /\ "Content-Type" \notin DOMAIN req.headers
     /\ Len(calls) = 1)
    => /\ calls[1].data = req.body
       /\ ~SendsJson(calls[1])
       /\ ~("Content-Type" \in DOMAIN calls[1].headers
             /\ calls[1].headers["Content-Type"] = "application/json")

C7_HttpErrorIsResult ==
    (/\ Custom
     /\ custom_method(req) \in {"GET", "POST", "PUT", "PATCH", "DELETE"}
     /\ net.kind = "response"
     /\ net.status \in 400..599)
    => /\ outcome.kind = "result"
       /\ ~outcome.success
       /\ outcome.status = net.status
       /\ HasPayload
       /\ "error" \notin outcome.keys

\* C8 as claimed: in every result for a completed exchange success is true
\* exactly when the status is in [200,400).
C8_SuccessIs2xx3xx ==
    (pc = "done" /\ outcome.kind = "result" /\ net.kind = "response")
    => (outcome.success <=> (200 <= net.status /\ net.status < 400))

\* C8 as amended: in every result for a completed exchange success is true
\* exactly when the status is outside [400,600) (so also for 1xx and for
\* 600 and above), whether the payload parsed as JSON or fell back to text.
C8_SuccessIsNotErrorStatus ==
    (pc = "done" /\ outcome.kind = "result" /\ net.kind = "response")
    => /\ outcome.success <=> ~(400 <= net.status /\ net.status < 600)
       /\ outcome.status = net.status

C8_Witness ==
    /\ Api
    /\ outcome.kind = "result"
    /\ net.kind = "response"
    /\ net.status = 399
    /\ "text" \in outcome.keys
    /\ outcome.success

\* C9: every result of execute_custom_api holds exactly one payload: when
\* the response text parses as JSON, content kind "json" with the parsed
\* value under data and no text; otherwise content kind "text" with the raw
\* text and no data.  The JSON parse comes first.
C9_ExactlyOnePayload ==
    (Custom /\ outcome.kind = "result")
    => IF JsonLoads(net.text).ok
       THEN /\ outcome.content_type = "json"
            /\ "data" \in outcome.keys
            /\ outcome.data = JsonLoads(net.text).v
            /\ "text" \notin outcome.keys
       ELSE /\ outcome.content_type = "text"
            /\ "text" \in outcome.keys
            /\ outcome.text = net.text
            /\ "data" \notin outcome.keys

C9_Witness ==
    /\ Custom
    /\ outcome.kind = "result"
    /\ net.text = JsonText
    /\ outcome.content_type = "json"
    /\ outcome.data = PyDict([k \in {"id"} |-> "1"])

\* C10: one invocation issues at most one outgoing call: exactly one when
\* the URL parses with scheme http/https, none otherwise, and the call is
\* not issued again after a timeout, a connection failure, an HTTP error
\* status or an internal error.
C10_SingleAttempt ==
    pc = "done"
    => /\ Len(calls) <= 1
       /\ requests_accepts(req.base_url) => Len(calls) = 1
       /\ ~requests_accepts(req.base_url) => Len(calls) = 0

C10_Witness ==
    /\ Custom
    /\ net.kind = "timeout"
    /\ outcome.status = 408
    /\ Len(calls) = 1

\* C11: header injection only fills gaps: the headers sent always hold a
\* User-Agent; they hold a Content-Type whenever the method is
\* POST/PUT/PATCH and a body is given (an empty object or array included;
\* an empty text, of which nothing is sent, is not counted as a body); and
\* a User-Agent or Content-Type value given by the caller is sent as given,
\* never overwritten.
C11_HeadersOnlyFillGaps ==
    (pc = "done" /\ fn \in {"execute_custom_api", "execute_api_request"}
       /\ Len(calls) = 1)
    => LET w == WireHeaders(calls[1], req.headers)
       IN  /\ "user-agent" \in DOMAIN w
           /\ (Method \in {"POST", "PUT", "PATCH"}
                 /\ req.body # PyNone /\ req.body # PyStr(""))
                => "content-type" \in DOMAIN w
           /\ \A k \in DOMAIN req.headers :
                HeaderName(k) \in {"user-agent", "content-type"}
                => w[HeaderName(k)] = req.headers[k]

\* C12: POST/PUT/PATCH with a body that is not null sends exactly one
\* payload: the body as JSON when it is an object, an array or a string that
\* parses as JSON, the body as raw text otherwise; never none, never both.
C12_ExactlyOneRequestPayload ==
    (/\ Custom
     /\ custom_method(req) \in {"POST", "PUT", "PATCH"}
     /\ req.body # PyNone
     /\ Len(calls) = 1)
    => IF req.body.t \in {"dict", "list"}
       THEN SendsJson(calls[1]) /\ ~SendsText(calls[1]) /\ calls[1].json = req.body
       ELSE IF JsonLoads(req.body.s).ok
       THEN /\ SendsJson(calls[1])
            /\ ~SendsText(calls[1])
            /\ calls[1].json = JsonLoads(req.body.s).v
       ELSE ~SendsJson(calls[1]) /\ calls[1].data = req.body

Node == pc = "done" /\ fn = "node_api_exec"

\* the keywords of a category of the table
KeywordsOf(method) ==
    UNION {api_keywords[j].keywords :
             j \in {k \in 1..Len(api_keywords) : api_keywords[k].method = method}}

\* some keyword of the category occurs in the utterance handled
Mentions(method) ==
    \E i \in 1..Len(turn.user_msg.tokens) :
        KeywordsIn(Lower(turn.user_msg.tokens[i])) \cap KeywordsOf(method) # {}

\* C13: while the session has an active, incomplete flow, the utterance is
\* handed to the flow as the answer to the oldest pending parameter (the flow
\* afterwards is the flow with that answer stored, or is deleted because the
\* answer completed it), also when the utterance holds a method keyword and a
\* URL: no direct API execution is made of it.
C13_ActiveFlowNotBypassed ==
    (Node /\ flow_active(turn.had_flow))
    => /\ turn.route = "active_flow"
       /\ LET answered == flow_answer(turn.had_flow, turn.user_msg.text)
          IN  flows[turn.session_id] =
                IF answered.pending = <<>> THEN NoFlow ELSE answered

\* C14: the detected method is the first category in the order PUT, POST,
\* PATCH, DELETE, GET one of whose keywords occurs in the lower-cased
\* utterance, and no method is detected when no keyword occurs.
C14_MethodPriority ==
    Node =>
      turn.detected_method =
        (IF Mentions("put") THEN "PUT"
         ELSE IF Mentions("post") THEN "POST"
         ELSE IF Mentions("patch") THEN "PATCH"
         ELSE IF Mentions("delete") THEN "DELETE"
         ELSE IF Mentions("get") THEN "GET"
         ELSE "")

\* "modify" is a keyword of PUT and of PATCH, and PUT was detected
C14_Witness ==
    /\ Node
    /\ Mentions("put") /\ Mentions("patch")
    /\ turn.detected_method = "PUT"

\* C15: in a direct PUT/POST/PATCH call the body is the embedded JSON object
\* whenever the first brace-delimited candidate parses, an empty object
\* included; the method's placeholder body is used only when there is no
\* candidate or the first one fails to parse; GET and DELETE get no body.
C15_BodyFromFirstCandidate ==
    (Node /\ turn.route = "direct")
    => LET candidates == SelectSeq(turn.user_msg.tokens, IsJsonCandidate)
       IN  IF turn.detected_method \in {"GET", "DELETE"}
           THEN req.body = PyNone
           ELSE IF candidates # <<>> /\ JsonLoads(candidates[1]).ok
           THEN req.body = JsonLoads(candidates[1]).v
           ELSE req.body = default_body(turn.detected_method)

\* C16: an utterance with a method and a URL is answered with exactly one
\* assistant message whatever the call does (success, HTTP error status,
\* timeout, connection failure), and a failed call leaves every session's
\* flow and the registry as they were.
C16_DirectCallAnsweredOnce ==
    [][(pc = "idle" /\ pc' = "done" /\ fn' = "node_api_exec"
          /\ turn'.route = "direct")
       => /\ Len(turn'.messages) = 1
          /\ turn'.messages[1].role = "assistant"
          /\ outcome'.kind = "result"
          /\ (~outcome'.success => flows' = flows /\ registry' = registry)]_vars

\* a direct call that timed out while the session had a flow under way
C16_Witness ==
    /\ Node
    /\ turn.route = "direct"
    /\ net.kind = "timeout"
    /\ flow_active(turn.had_flow)
    /\ Len(turn.messages) = 1

\* C17: with no direct call detected and no active incomplete flow, the
\* new-intent handler is started only for an intent whose confidence exceeds
\* 0.7; the fallback runs exactly when there is no active incomplete flow and
\* no such intent, and never while a flow is active and incomplete.
C17_ThresholdGatesRouter ==
    (Node /\ turn.route # "direct")
    => /\ turn.route = "new_intent"
            => /\ ~flow_active(turn.had_flow)
               /\ turn.api_intent.present
               /\ turn.api_intent.confidence > 70
       /\ turn.route = "fallback"
            <=> /\ ~flow_active(turn.had_flow)
                /\ ~(turn.api_intent.present /\ turn.api_intent.confidence > 70)
       /\ flow_active(turn.had_flow) => turn.route = "active_flow"

\* the router answered with a confidence of exactly 0.7 and the fallback ran
C17_Witness ==
    /\ Node
    /\ turn.route = "fallback"
    /\ turn.api_intent.present
    /\ turn.api_intent.confidence = 70

\* the names of a sequence of definitions are pairwise different
DistinctNames(defs) ==
    \A i, j \in 1..Len(defs) : defs[i].name = defs[j].name => i = j

\* C18: once a definition is registered for a tenant, and until its name is
\* registered again or removed there, resolve of that tenant and name answers
\* a definition equal to it in every field, and list of the tenant holds it;
\* resolve answers NotFound only for a name not registered.
C18_RegistryRoundTrip ==
    /\ reply.op = "resolve"
         => LET d == registered[reply.tenant][reply.name]
            IN  /\ reply.found = d
                /\ reply.result = (IF d = NoDef THEN "NotFound" ELSE "ok")
    /\ reply.op = "list"
         => \A n \in ApiNames :
              registered[reply.tenant][n] # NoDef
              => \E i \in 1..Len(reply.listing) :
                   reply.listing[i] = registered[reply.tenant][n]
    /\ reply.op = "register"
         => \E i \in 1..Len(registry[reply.tenant]) :
              registry[reply.tenant][i] = reply.given

\* resolve answered the definition with its credential while the tenant had
\* a second API registered
C18_Witness ==
    /\ reply.op = "resolve"
    /\ reply.found.auth_value = "dummy_key"
    /\ reply.found.parameters # EmptyDict
    /\ Len(registry[reply.tenant]) = 2

\* C19: whatever was registered and removed, a tenant's list holds at most
\* one entry per name; registering under a name already there replaces its
\* definition: the entry of that name is the later definition and there are
\* as many entries as registered names.
C19_OneEntryPerName ==
    /\ \A t \in Tenants :
         /\ DistinctNames(registry[t])
         /\ Len(registry[t]) =
              Cardinality({n \in ApiNames : registered[t][n] # NoDef})
    /\ reply.op = "list" => DistinctNames(reply.listing)
    /\ reply.op = "register"
         => \A i \in 1..Len(registry[reply.tenant]) :
              registry[reply.tenant][i].name = reply.name
              => registry[reply.tenant][i] = reply.given

\* a name registered a second time, with another definition, is still the
\* tenant's only entry
C19_Witness ==
    /\ reply.op = "register"
    /\ reply.had
    /\ reply.given.method = "PUT"
    /\ registry[reply.tenant] = <<reply.given>>

\* C20: remove answers ok exactly when the name is registered in the tenant
\* at that moment and NotFound otherwise; after it the name is not
\* registered, so a repeated removal answers NotFound; a removal answered
\* NotFound leaves the registry as it was.
C20_RemoveReportsPresence ==
    [][(reply'.op = "remove" /\ <<registry, reply>>' # <<registry, reply>>)
       => LET t == reply'.tenant
              n == reply'.name
              present == \E i \in 1..Len(registry[t]) : registry[t][i].name = n
          IN  /\ reply'.result = (IF present THEN "ok" ELSE "NotFound")
              /\ ~present => registry' = registry
              /\ ~\E i \in 1..Len(registry'[t]) : registry'[t][i].name = n
              /\ \A u \in Tenants \ {t} : registry'[u] = registry[u]]_vars

\* a name that had been registered and removed is removed again, while the
\* tenant still has another API
C20_Witness ==
    /\ reply.op = "remove"
    /\ reply.result = "NotFound"
    /\ registry[reply.tenant] # <<>>

\* C27: in execute_custom_api the query parameters of a POST, PUT or PATCH
\* (query_params merged with param_key/param_value, a key of query_params
\* never overwritten) reach the server in the query string of the outgoing
\* call whenever they are not empty, with a body given and with a null body.
C27_BodyMethodsKeepQuery ==
    (/\ Custom
     /\ custom_method(req) \in {"POST", "PUT", "PATCH"}
     /\ custom_params(req) # EmptyDict
     /\ Len(calls) = 1)
    => /\ QueryString(calls[1]) = custom_params(req)
       /\ \A k \in DOMAIN req.query_params.d :
            custom_params(req)[k] = req.query_params.d[k]

\* the positions of the utterance handled at which a URL stands
UrlPositions == {i \in 1..Len(turn.user_msg.tokens) : IsUrl(turn.user_msg.tokens[i])}

\* C28: node_api_exec makes a direct call exactly when the utterance has a
\* method keyword and at least one http/https URL; the call goes to the first
\* URL of the utterance with the detected method; with a keyword but no URL,
\* or a URL but no keyword, no call is made to a URL of the utterance.
C28_DirectCallNeedsMethodAndUrl ==
    Node =>
      /\ turn.route = "direct"
           <=> /\ UrlPositions # {}
               /\ \E j \in 1..Len(api_keywords) : Mentions(api_keywords[j].method)
      /\ turn.route = "direct"
           => /\ Len(calls) = 1
              /\ calls[1].method = turn.detected_method
              /\ calls[1].url =
                   ParseUrl(turn.user_msg.tokens[
                              CHOOSE i \in UrlPositions : \A k \in UrlPositions : i <= k])
      /\ turn.route # "direct"
           => \A c \in 1..Len(calls), i \in UrlPositions :
                calls[c].url # ParseUrl(turn.user_msg.tokens[i])

\* an utterance with two URLs was sent to the first of them
C28_Witness ==
    /\ Node
    /\ turn.route = "direct"
    /\ Cardinality(UrlPositions) = 2
    /\ Len(calls) = 1
    /\ calls[1].url.netloc = "b.test"

\* the definitions registered under a tenant
RegisteredUnder(t) == {registry[t][i] : i \in 1..Len(registry[t])}

\* C21: a register or remove under one tenant changes nothing list and
\* resolve answer for another tenant, and the known APIs used in handling an
\* utterance of a tenant are definitions registered under that tenant only.
C21_TenantIsolation ==
    /\ [](Node => turn.available_apis \subseteq RegisteredUnder(turn.tenant_id))
    /\ [][(reply'.op \in {"register", "remove"} /\ reply' # reply)
          => \A t \in Tenants \ {reply'.tenant} : registry'[t] = registry[t]]_vars

\* C23: a collecting flow takes one parameter per turn in the order listed:
\* an utterance of the session (one that says something) is stored as it is
\* under the oldest pending parameter, which leaves the pending list; when it
\* was the last one the Executor is invoked once, with the collected values,
\* and the session has no flow any more.
C23_FlowIsFifo ==
    (Node /\ flow_active(turn.had_flow) /\ turn.user_msg.text # "")
    => LET f    == turn.had_flow
           now  == flows[turn.session_id]
           text == turn.user_msg.text
       IN  IF Len(f.pending) > 1
           THEN /\ now.active
                /\ now.pending = Tail(f.pending)
                /\ Head(f.pending) \in DOMAIN now.collected
                /\ now.collected[Head(f.pending)] = text
                /\ \A k \in DOMAIN f.collected : now.collected[k] = f.collected[k]
                /\ calls = <<>>
           ELSE /\ now = NoFlow
                /\ Len(calls) = 1
                /\ calls[1].url = f.api.base_url
                /\ Head(f.pending) \in DOMAIN QueryString(calls[1])
                /\ QueryString(calls[1])[Head(f.pending)] = text

\* C24: a collecting flow that goes AbandonAfter turns without an answer is
\* abandoned: it is deleted and the Executor is not invoked for it; and a
\* flow of a session that keeps sending turns does not stay collecting for
\* ever.
C24_FlowsLeaveCollecting ==
    /\ []((Node /\ turn.event = "abandoned")
            => flows[turn.session_id] = NoFlow /\ calls = <<>>)
    /\ [](\A s \in Sessions : flows[s].unanswered < AbandonAfter)
    /\ \A s \in Sessions :
         ([]<><<pc = "idle" /\ pc' = "done" /\ turn'.session_id = s>>_vars)
         => (flow_active(flows[s]) ~> ~flow_active(flows[s]))

\* C25: a session has one flow or none, and a flow in the mapping is
\* collecting: never complete, never with nothing pending, never at the
\* abandonment bound; the turn that completes or abandons a flow deletes it.
C25_OnlyCollectingFlowsStored ==
    /\ \A s \in Sessions :
         \/ flows[s] = NoFlow
         \/ /\ flows[s].active
            /\ ~flows[s].is_complete
            /\ flows[s].pending # <<>>
            /\ flows[s].unanswered < AbandonAfter
    /\ (Node /\ turn.event \in {"complete", "abandoned"})
         => flows[turn.session_id] = NoFlow

\* the last pending parameter was answered and the session has no flow left
C25_Witness ==
    /\ Node
    /\ turn.route = "active_flow"
    /\ turn.event = "complete"
    /\ Len(calls) = 1
    /\ flows[turn.session_id] = NoFlow

\* the turn ran as the session and tenant of the handler's utterance
OwnTurn(h) ==
    /\ turn.session_id = node_session_id(handlers[h].session)
    /\ turn.tenant_id = node_tenant_id(handlers[h].tenant)

\* C26: utterances handled at the same time leave the flows intact: no two
\* handlers of one session are under way together, and a handler works as
\* the session and tenant of its own utterance and changes no flow but that
\* session's.
C26_HandlersKeepToTheirSession ==
    /\ [](\A h \in Handlers, g \in Handlers :
            (h # g /\ handlers[h].stage # "idle" /\ handlers[g].stage # "idle")
            => node_session_id(handlers[h].session)
                 # node_session_id(handlers[g].session))
    /\ [](\A h \in Handlers : handlers[h].stage = "ran" => OwnTurn(h))
    /\ [][\A h \in Handlers :
            (handlers[h].stage = "set" /\ handlers'[h].stage = "ran")
            => \A s \in Sessions \ {node_session_id(handlers[h].session)} :
                 flows'[s] = flows[s]]_vars

\* what a call does to a tenant's definitions when it runs alone
Alone(p, t, defs) ==
    IF procs[p].tenant # t THEN defs
    ELSE CASE procs[p].op = "register" -> registry_put(defs, procs[p].given)
           [] procs[p].op = "remove"   -> registry_delete(defs, procs[p].name)
           [] OTHER                    -> defs

AllDone == \A p \in Procs : procs[p].stage = "done"

\* C22: when the calls made at the same time have all returned, each
\* tenant's definitions are what the calls give run one after the other in
\* some order, and what a resolve or a list returned holds whole definitions
\* only, never one with fields of the old and of the new value.
C22_RegistryCallsAreSerial ==
    /\ AllDone
         => \A t \in Tenants :
              \E p \in Procs, q \in Procs :
                 /\ p # q
                 /\ registry[t] = Alone(q, t, Alone(p, t, RegistryAtStart(t)))
    /\ \A p \in Procs :
         /\ procs[p].found \in ApiDefinitions \cup {NoDef}
         /\ \A i \in 1..Len(procs[p].listing) :
              procs[p].listing[i] \in ApiDefinitions

\* two registrations of different names under one tenant, made at the same
\* time, both there at the end
C22_Witness ==
    /\ AllDone
    /\ \A p \in Procs : procs[p].op = "register" /\ procs[p].tenant = "default"
    /\ procs["p1"].name # procs["p2"].name
    /\ \A p \in Procs :
         registry_find(registry["default"], procs[p].name) = procs[p].given
    /\ registry["default"] # RegistryAtStart("default")

====
